---- MODULE Spec2Model ----
(***************************************************************************)
(* Task scheduling of the TTS service: the Task Store (tts_tasks table of  *)
(* DatabaseManager), the File Store (TaskFileManager), the Redis priority  *)
(* queue (RedisManager), the API handlers online_tts and                   *)
(* submit_long_text_task, and the worker loop TTSTaskWorker.run with       *)
(* process_task.  Every SQL statement, Redis command and engine call is    *)
(* one atomic step; the awaits between them are the interleaving points.   *)
(***************************************************************************)
EXTENDS Integers, Sequences, FiniteSets, TLC

\* ---------------------------------------------------------------- bounds
MaxTasks == 2
NumWorkers == 2
MaxTime == 1
MaxCalls == 4
MaxQueueIds == 2

TaskIds == 1..MaxTasks
QueueIds == 1..MaxQueueIds
Workers == 1..NumWorkers
Times == 0..MaxTime

\* ------------------------------------------------------------- constants
NULL == "NULL"
NULL_T == -1
NoTask == 0
ScoreFactor == 1000000
ErrTexts == {"", "engine error"}
Priorities == {0, 1, 5}
\* priority: Optional[int] = Field(0, ...)
DefaultPriority == 0
TaskTypes == {"online", "long_text"}
NoFilter == "any"
\* TASK_TYPE is unset by default: run(task_type=None)
TaskTypeArg == NoFilter
MaxCount == 2
\* empty polls counted in a row
MaxPolls == 12
\* POLL_INTERVAL, in seconds
PollInterval == 1
\* max_empty_polls = 10
max_empty_polls == 10
\* seconds after which a task in processing counts as abandoned
LivenessThreshold == 1
\* a history counter, which stops at MaxCount
Count(n) == IF n < MaxCount THEN n + 1 ELSE n
NoTaskData == [task_id |-> NoTask, callback_url |-> FALSE]
\* audio_url = None, srt_url = None, no upload attempted
NoUrls == [audio_url |-> FALSE, srt_url |-> FALSE, upload |-> "none"]
QueueNames == {"online", "long_text"}
\* no GET request answered yet
NoAnswer == [endpoint |-> "none", task_id |-> NoTask, code |-> 0,
             status |-> NULL, content |-> NULL]
\* the locals of process_task before the engine has returned
NoResult == [processing_time |-> NULL_T, actual_duration |-> NULL_T, file_size |-> NULL_T]
\* no score computed
NoCalc == [p1 |-> 0, t1 |-> 0, p2 |-> 0, t2 |-> 0, score1 |-> NULL_T, score2 |-> NULL_T]
\* the cleanup script has not run yet
NoCleanup == [runs |-> 0, selected |-> {}, removed |-> {}]

\* time.time() - start_time, int(audio_duration) and len(wav_bytes) of a synthesis
Results == {[processing_time |-> 1, actual_duration |-> 2, file_size |-> 3],
            [processing_time |-> 2, actual_duration |-> 5, file_size |-> 7]}

\* a Python value: its type and its text (str(value), json.dumps for a dict)
Value(type, text) == [type |-> type, text |-> text]
NoValue == Value("none", "")
\* values given to set_cache: plain strings, strings that are JSON texts, an
\* int and a dict
CacheValues == {Value("str", "test_value"), Value("str", "1"), Value("str", "true"),
                Value("int", "1"), Value("dict", "{\"count\": 1}")}
CacheKeys == {"test_connection", "rate_limit:ip"}

\* largest max_retries given to TOSUploader.upload
MaxRetries == 3
\* str(e) of the exceptions _do_upload raises
UploadErrors == {"timeout", "access denied", "connection reset"}
LocalPaths == {"audio.wav", "subtitle.srt"}
remote_path == "tts_files"

\* request texts
Texts == {"first text", "second text"}

\* requests of one client IP that can be inside check_rate_limit together
NumRequests == 2
Requests == 1..NumRequests
\* config.RATE_LIMIT_PER_MINUTE (60 by default), scaled
RATE_LIMIT_PER_MINUTE == 2
\* expire=60 of the counter key, in clock steps
RateExpire == 2
\* the count get_cache gives for a key that is absent (None); a count that is
\* there is 1 or more
Absent == 0
\* the time to live of a key without expiry
NoExpiry == 0

VARIABLES
    now,          \* wall clock, in seconds (NOW(), datetime.now())
    tasks,        \* tts_tasks table: task_id -> row
    files,        \* File Store: task_id -> kinds of file in the task directory
    queue,        \* Redis sorted sets: queue name -> set of [member, score]
    wpc,          \* worker -> position in run / process_task
    wtask,        \* worker -> task_data it holds (task_id, callback_url)
    werr,         \* worker -> str(e) of the exception it is handling
    opc,          \* task_id -> position of the online_tts request that created it
    oerr,         \* task_id -> str(ex) of the exception online_tts is handling
    callbacks,    \* task_id -> payloads POSTed to its callback_url, in order
    synthCount,   \* task_id -> number of engine calls made for it (counted up to MaxCount)
    resp,         \* task_id -> answer of the submit request that drew the id
    wurl,         \* worker -> audio_url, srt_url locals of process_task, and how its uploads ended
    qlog,         \* queue client: its push and pop calls with their results, in order
    cache,        \* Redis keys task_status:<task_id>: task_id -> cached status, or NULL
    answer,       \* the answer of the latest GET request: endpoint, task_id, code, body
    cleaned,      \* the latest run of the cleanup script: tasks selected, directories removed
    tasks_dir,    \* the directory storage_root/tasks of the File Store exists
    calc,         \* two pushes, their priorities and timestamps, and the scores computed
    created,      \* the calls of create_*_task: id drawn, whether a row had it, whether it returned
    wres,         \* worker -> processing_time, audio_duration, len(wav_bytes) locals of process_task
    wloop,        \* worker -> phase of main, self.running, consecutive_empty_polls, last sleep, stop() called
    rcache,       \* Redis strings set by set_cache: key -> text; the value last stored per key; the value last got
    up,           \* the TOSUploader.upload call in progress: arguments, loop locals, sleeps made, outcome
    texts,        \* task_id -> content of tasks/<task_id>/<task_id>.txt, NULL when there is no file
    rl            \* rate limit of one client IP: the Redis key (count, ttl), the requests being checked, the admissions of the window, rejected since the last admission

\* the locals of the worker loop and the state of the collaborators
ext == <<wres, wloop, rcache, up, texts, rl>>

\* the state of the task flow
flow == <<now, tasks, files, queue, wpc, wtask, werr, opc, oerr,
          callbacks, synthCount, qlog, resp, wurl>>

\* the state of the read endpoints, the cleanup script, the scores and the ids
house == <<cache, answer, cleaned, tasks_dir, calc, created>>

\* the state of the read endpoints and of the cleanup script, and the
\* records of score computations and of id draws
maint == <<cache, answer, cleaned, tasks_dir, calc, created, ext>>

vars == <<now, tasks, files, queue, wpc, wtask, werr, opc, oerr,
          callbacks, synthCount, qlog, resp, wurl, maint>>

\* ------------------------------------------------------------ Task Store
NoRow ==
    [task_type |-> "none", status |-> "none", created_at |-> NULL_T,
     started_at |-> NULL_T, completed_at |-> NULL_T, error_message |-> NULL,
     audio_file_path |-> FALSE, srt_file_path |-> FALSE,
     audio_url |-> FALSE, srt_url |-> FALSE,
     priority |-> 0, callback_url |-> FALSE,
     processing_time |-> NULL_T, actual_duration |-> NULL_T, file_size |-> NULL_T]

Exists(rows, task_id) == rows[task_id].status # "none"

\* INSERT INTO tts_tasks (...): status takes the column default 'pending'
InsertRow(task_type, callback_url, t) ==
    [NoRow EXCEPT !.task_type = task_type, !.status = "pending",
                  !.created_at = t, !.callback_url = callback_url]

\* update_task_status with the error_message column left out of the SET list
UpdateFields_NoError(row, status, audio_url, srt_url, error_message, t) ==
    [row EXCEPT !.status = status,
                !.audio_url = IF audio_url THEN TRUE ELSE @,
                !.srt_url = IF srt_url THEN TRUE ELSE @,
                !.completed_at = IF status \in {"completed", "failed"} THEN t ELSE @]

\* The SET list update_task_status builds, applied to one row; a url that is
\* None (FALSE) is left out of the list
UpdateFields(row, status, audio_url, srt_url, error_message, t) ==
    [row EXCEPT !.status = status,
                !.audio_url = IF audio_url THEN TRUE ELSE @,
                !.srt_url = IF srt_url THEN TRUE ELSE @,
                !.error_message = IF error_message # NULL THEN error_message ELSE @,
                !.completed_at = IF status \in {"completed", "failed"} THEN t ELSE @]

\* UPDATE tts_tasks SET ... WHERE task_id = %s; success = cursor.rowcount > 0
update_task_status(rows, task_id, status, audio_url, srt_url, error_message, t) ==
    IF ~Exists(rows, task_id)
    THEN [rows |-> rows, ret |-> FALSE]
    ELSE LET new == UpdateFields(rows[task_id], status, audio_url, srt_url, error_message, t)
         IN  [rows |-> [rows EXCEPT ![task_id] = new],
              ret  |-> new # rows[task_id]]

\* update_task_files: audio_file_path / srt_file_path are always passed, a url
\* that is None (FALSE) is left out of the SET list
update_task_files(rows, task_id, audio_url, srt_url) ==
    IF ~Exists(rows, task_id)
    THEN rows
    ELSE [rows EXCEPT ![task_id].audio_file_path = TRUE,
                      ![task_id].srt_file_path = TRUE,
                      ![task_id].audio_url = IF audio_url THEN TRUE ELSE @,
                      ![task_id].srt_url = IF srt_url THEN TRUE ELSE @]

\* the scan restricted to the rows of type online, whatever the argument
get_next_task_select_online(rows, task_type) ==
    LET pending == {i \in TaskIds : rows[i].status = "pending" /\ rows[i].task_type = "online"}
    IN  {i \in pending : \A k \in pending : rows[i].created_at <= rows[k].created_at}

\* SELECT * FROM tts_tasks WHERE status = 'pending' [AND task_type = %s]
\* ORDER BY created_at ASC LIMIT 1: the rows the statement may return
get_next_task_select(rows, task_type) ==
    LET match == {i \in TaskIds :
                     /\ rows[i].status = "pending"
                     /\ (task_type # NoFilter => rows[i].task_type = task_type)}
    IN  {i \in match : \A j \in match : rows[i].created_at <= rows[j].created_at}

\* UPDATE tts_tasks SET status = 'processing', started_at = NOW() WHERE task_id = %s
get_next_task_update(rows, task_id, t) ==
    IF ~Exists(rows, task_id)
    THEN rows
    ELSE [rows EXCEPT ![task_id].status = "processing", ![task_id].started_at = t]

\* ---------------------------------------------------------- Priority Queue
\* redis_manager.py binds config only inside __init__; the queue methods read
\* the module-level name config, which the module never binds.
ConfigNameBound == FALSE

Score(priority, t) == priority * ScoreFactor + t

Member(task_id, priority) == [task_id |-> task_id, priority |-> priority]

\* order of the serialized members (ties of score are ordered by member)
MemberLess(a, b) ==
    \/ a.task_id < b.task_id
    \/ a.task_id = b.task_id /\ a.priority < b.priority

EntryLess(a, b) ==
    \/ a.score < b.score
    \/ a.score = b.score /\ MemberLess(a.member, b.member)

\* ZADD key {member: score}
zadd(zset, member, score) ==
    {e \in zset : e.member # member} \cup {[member |-> member, score |-> score]}

\* ZPOPMAX key: the entry it removes (zset is not empty)
zmax(zset) == CHOOSE e \in zset : \A f \in zset : f = e \/ EntryLess(f, e)

push_task_to_queue(q, name, task_id, priority, t) ==
    IF ~ConfigNameBound
    THEN [queue |-> q, ret |-> FALSE]
    ELSE [queue |-> [q EXCEPT ![name] = zadd(@, Member(task_id, priority), Score(priority, t))],
          ret |-> TRUE]

pop_task_from_queue(q, name) ==
    IF ~ConfigNameBound \/ q[name] = {}
    THEN [queue |-> q, ret |-> NoTask, priority |-> 0]
    ELSE LET e == zmax(q[name])
         IN  [queue |-> [q EXCEPT ![name] = @ \ {e}],
              ret |-> e.member.task_id, priority |-> e.member.priority]

\* utils.redis_manager, which src/api_server.py and src/task_worker.py import:
\* a Priority Queue whose push adds the entry and whose pop removes the entry
\* of highest score
utils_push_task_to_queue(q, name, task_id, priority, t) ==
    [queue |-> [q EXCEPT ![name] = zadd(@, Member(task_id, priority), Score(priority, t))],
     ret |-> TRUE]

utils_pop_task_from_queue(q, name) ==
    IF q[name] = {}
    THEN [queue |-> q, ret |-> NoTask, priority |-> 0]
    ELSE LET e == zmax(q[name])
         IN  [queue |-> [q EXCEPT ![name] = @ \ {e}],
              ret |-> e.member.task_id, priority |-> e.member.priority]

\* ------------------------------------------------------------------ Init
\* run() is under way: self.running = True, consecutive_empty_polls = 0
Running ==
    [phase |-> "run", running |-> TRUE, consecutive_empty_polls |-> 0,
     sleep |-> 0, stop_called |-> FALSE]

\* main has built the worker and installed the signal handlers:
\* self.running = False, run() not yet called
Initializing == [Running EXCEPT !.phase = "initialize", !.running = FALSE]

ResultInit == wres = [w \in Workers |-> NoResult]

LoopRunning == wloop = [w \in Workers |-> Running]

CacheInit ==
    rcache = [kv |-> [k \in CacheKeys |-> NULL],
              put |-> [k \in CacheKeys |-> NoValue],
              got |-> [key |-> NULL, value |-> NoValue]]

\* no upload call yet
NoUpload ==
    [phase |-> "idle", local_path |-> NULL, max_retries |-> 0, attempt |-> 0,
     attempts |-> << >>, waits |-> << >>, last_exception |-> NULL, outcome |-> NULL]

UploadInit == up = NoUpload

TextInit == texts = [i \in TaskIds |-> NULL]

\* no key rate_limit:<ip>, no request being checked
RateInit ==
    rl = [count |-> Absent, ttl |-> NoExpiry, wleft |-> 0, admitted |-> 0,
          req |-> [r \in Requests |-> [pc |-> "idle", current_count |-> Absent]],
          last |-> [r \in Requests |-> "none"], rejected |-> FALSE]

ExtInit ==
    /\ ResultInit
    /\ LoopRunning
    /\ CacheInit
    /\ UploadInit
    /\ TextInit
    /\ RateInit

FlowInit ==
    /\ now = 0
    /\ tasks = [i \in TaskIds |-> NoRow]
    /\ files = [i \in TaskIds |-> {}]
    /\ queue = [n \in QueueNames |-> {}]
    /\ wpc = [w \in Workers |-> "poll"]
    /\ wtask = [w \in Workers |-> NoTaskData]
    /\ werr = [w \in Workers |-> NULL]
    /\ opc = [i \in TaskIds |-> "none"]
    /\ oerr = [i \in TaskIds |-> NULL]
    /\ callbacks = [i \in TaskIds |-> <<>>]
    /\ synthCount = [i \in TaskIds |-> 0]
    /\ qlog = <<>>
    /\ resp = [i \in TaskIds |-> "none"]
    /\ wurl = [w \in Workers |-> NoUrls]

HouseInit ==
    /\ cache = [i \in TaskIds |-> NULL]
    /\ answer = NoAnswer
    /\ cleaned = NoCleanup
    /\ tasks_dir = TRUE
    /\ calc = NoCalc
    /\ created = <<>>

Init == FlowInit /\ HouseInit /\ ExtInit

\* time passes
Tick ==
    /\ now < MaxTime
    /\ now' = now + 1
    /\ UNCHANGED <<tasks, files, queue, wpc, wtask, werr, opc, oerr,
                   callbacks, synthCount, qlog, resp, wurl, maint>>

\* ------------------------------------------------------------ API server
\* task_id was drawn by a request: it has a row, or a submit request answered
\* for it
Drawn(task_id) == Exists(tasks, task_id) \/ resp[task_id] # "none"

\* _generate_short_id draws 8 random characters; the model names the ids in the
\* order in which they are drawn
IsNewId(task_id) ==
    /\ ~Drawn(task_id)
    /\ \A j \in TaskIds : j < task_id => Drawn(j)

\* POST /tts/task/submit: create_long_text_task (directory, text file, INSERT
\* with the priority in the payload), then push_task_to_queue("long_text",
\* task_data, priority); the answer is 500 when the push returns False
submit_long_text_task(task_id, callback_url, priority) ==
    /\ IsNewId(task_id)
    /\ tasks' = [tasks EXCEPT ![task_id] =
                    [InsertRow("long_text", callback_url, now) EXCEPT !.priority = priority]]
    /\ files' = [files EXCEPT ![task_id] = @ \cup {"txt"}]
    /\ LET r == push_task_to_queue(queue, "long_text", task_id, priority, now)
       IN  /\ queue' = r.queue
           /\ resp' = [resp EXCEPT ![task_id] = IF r.ret THEN "success" ELSE "error"]
    /\ UNCHANGED <<now, wpc, wtask, werr, opc, oerr, callbacks,
                   synthCount, qlog, wurl, maint>>

\* POST /tts/task/submit when save_text_file raises: _save_text_to_file logs
\* the exception and returns None, create_long_text_task goes on to INSERT the
\* row with text_file_path NULL and returns the task_id, submit pushes
submit_text_write_fails(task_id, callback_url, priority) ==
    /\ IsNewId(task_id)
    /\ tasks' = [tasks EXCEPT ![task_id] =
                    [InsertRow("long_text", callback_url, now) EXCEPT !.priority = priority]]
    /\ LET r == push_task_to_queue(queue, "long_text", task_id, priority, now)
       IN  /\ queue' = r.queue
           /\ resp' = [resp EXCEPT ![task_id] = IF r.ret THEN "success" ELSE "error"]
    /\ UNCHANGED <<now, files, wpc, wtask, werr, opc, oerr, callbacks,
                   synthCount, qlog, wurl, maint>>

\* POST /tts/task/submit when the INSERT raises: the directory and the text
\* file are written, the exception leaves create_long_text_task and is caught
\* by the except of submit, which answers 500 without pushing
submit_insert_fails(task_id) ==
    /\ IsNewId(task_id)
    /\ files' = [files EXCEPT ![task_id] = @ \cup {"txt"}]
    /\ resp' = [resp EXCEPT ![task_id] = "error"]
    /\ UNCHANGED <<now, tasks, queue, wpc, wtask, werr, opc, oerr, callbacks,
                   synthCount, qlog, wurl, maint>>

\* POST /tts/online, up to the await of the engine: create_online_task
online_tts_create(task_id) ==
    /\ IsNewId(task_id)
    /\ tasks' = [tasks EXCEPT ![task_id] = InsertRow("online", FALSE, now)]
    /\ files' = [files EXCEPT ![task_id] = @ \cup {"txt"}]
    /\ opc' = [opc EXCEPT ![task_id] = "infer"]
    /\ UNCHANGED <<now, queue, wpc, wtask, werr, oerr, callbacks,
                   synthCount, qlog, resp, wurl, maint>>

\* tts.infer_with_ref_audio_embed returns: the audio and srt files are saved
online_tts_infer_ok(task_id) ==
    /\ opc[task_id] = "infer"
    /\ synthCount' = [synthCount EXCEPT ![task_id] = Count(@)]
    /\ files' = [files EXCEPT ![task_id] = @ \cup {"wav", "srt"}]
    /\ opc' = [opc EXCEPT ![task_id] = "update_files"]
    /\ UNCHANGED <<now, tasks, queue, wpc, wtask, werr, oerr, callbacks, qlog, resp, wurl, maint>>

\* the engine raises: ValueError answers 400, any other exception goes on to
\* update_task_status(failed)
online_tts_infer_raise(task_id, is_value_error, text) ==
    /\ opc[task_id] = "infer"
    /\ synthCount' = [synthCount EXCEPT ![task_id] = Count(@)]
    /\ opc' = [opc EXCEPT ![task_id] = IF is_value_error THEN "done" ELSE "fail_status"]
    /\ oerr' = [oerr EXCEPT ![task_id] = IF is_value_error THEN @ ELSE text]
    /\ UNCHANGED <<now, tasks, files, queue, wpc, wtask, werr, callbacks, qlog, resp, wurl, maint>>

online_tts_update_files(task_id) ==
    /\ opc[task_id] = "update_files"
    /\ tasks' = update_task_files(tasks, task_id, FALSE, FALSE)
    /\ opc' = [opc EXCEPT ![task_id] = "update_status"]
    /\ UNCHANGED <<now, files, queue, wpc, wtask, werr, oerr, callbacks,
                   synthCount, qlog, resp, wurl, maint>>

online_tts_completed(task_id) ==
    /\ opc[task_id] = "update_status"
    /\ tasks' = update_task_status(tasks, task_id, "completed", FALSE, FALSE, NULL, now).rows
    /\ opc' = [opc EXCEPT ![task_id] = "done"]
    /\ UNCHANGED <<now, files, queue, wpc, wtask, werr, oerr, callbacks,
                   synthCount, qlog, resp, wurl, maint>>

online_tts_failed(task_id) ==
    /\ opc[task_id] = "fail_status"
    /\ tasks' = update_task_status(tasks, task_id, "failed", FALSE, FALSE, oerr[task_id], now).rows
    /\ opc' = [opc EXCEPT ![task_id] = "done"]
    /\ oerr' = [oerr EXCEPT ![task_id] = NULL]
    /\ UNCHANGED <<now, files, queue, wpc, wtask, werr, callbacks,
                   synthCount, qlog, resp, wurl, maint>>

\* ---------------------------------------------------------------- worker
\* run: pop_task_from_queue('online'); if nothing, get_next_task's SELECT
run_poll(w) ==
    /\ wpc[w] = "poll"
    /\ LET popped == pop_task_from_queue(queue, "online")
       IN  IF popped.ret # NoTask
           THEN /\ queue' = popped.queue
                /\ wtask' = [wtask EXCEPT ![w] = [task_id |-> popped.ret, callback_url |-> FALSE]]
                /\ wpc' = [wpc EXCEPT ![w] = "process"]
           ELSE /\ queue' = popped.queue
                /\ LET found == get_next_task_select(tasks, TaskTypeArg)
                   IN  IF found = {}
                       THEN UNCHANGED <<wtask, wpc>>
                       ELSE \E i \in found :
                              /\ wtask' = [wtask EXCEPT ![w] =
                                    [task_id |-> i, callback_url |-> tasks[i].callback_url]]
                              /\ wpc' = [wpc EXCEPT ![w] = "claim"]
    /\ UNCHANGED <<now, tasks, files, werr, opc, oerr, callbacks,
                   synthCount, qlog, resp, wurl, maint>>

\* get_next_task's UPDATE of the row its SELECT returned
run_claim(w) ==
    /\ wpc[w] = "claim"
    /\ tasks' = get_next_task_update(tasks, wtask[w].task_id, now)
    /\ wpc' = [wpc EXCEPT ![w] = "process"]
    /\ UNCHANGED <<now, files, queue, wtask, werr, opc, oerr, callbacks,
                   synthCount, qlog, resp, wurl, maint>>

\* process_task: the engine returns; save_audio_file and save_srt_file
process_task_infer_ok(w) ==
    /\ wpc[w] = "process"
    /\ synthCount' = [synthCount EXCEPT ![wtask[w].task_id] = Count(@)]
    /\ files' = [files EXCEPT ![wtask[w].task_id] = @ \cup {"wav", "srt"}]
    /\ wpc' = [wpc EXCEPT ![w] = "update_files"]
    /\ UNCHANGED <<now, tasks, queue, wtask, werr, opc, oerr, callbacks, qlog, resp, wurl, maint>>

\* the upload block with srt_url set from the audio upload alone
upload_files_srt_unchecked(audio_ok, srt_ok) ==
    [audio_url |-> audio_ok,
     srt_url   |-> audio_ok,
     upload    |-> IF ~audio_ok THEN "audio_failed"
                   ELSE IF ~srt_ok THEN "srt_failed" ELSE "ok"]

\* process_task with a tos_uploader: upload the audio file, then the subtitle
\* file; the first upload that raises ends the block, the except logs it
upload_files(audio_ok, srt_ok) ==
    [audio_url |-> audio_ok,
     srt_url   |-> audio_ok /\ srt_ok,
     upload    |-> IF ~audio_ok THEN "audio_failed"
                   ELSE IF ~srt_ok THEN "srt_failed" ELSE "ok"]

\* process_task of a worker with a tos_uploader: the engine returns, the audio
\* and srt files are saved, the uploads are tried
process_task_infer_ok_upload(w, audio_ok, srt_ok) ==
    /\ wpc[w] = "process"
    /\ synthCount' = [synthCount EXCEPT ![wtask[w].task_id] = Count(@)]
    /\ files' = [files EXCEPT ![wtask[w].task_id] = @ \cup {"wav", "srt"}]
    /\ wurl' = [wurl EXCEPT ![w] = upload_files(audio_ok, srt_ok)]
    /\ wpc' = [wpc EXCEPT ![w] = "update_files"]
    /\ UNCHANGED <<now, tasks, queue, wtask, werr, opc, oerr, callbacks, qlog, resp, maint>>

\* process_task: the engine raises; error_msg = str(e)
process_task_infer_raise(w, text) ==
    /\ wpc[w] = "process"
    /\ synthCount' = [synthCount EXCEPT ![wtask[w].task_id] = Count(@)]
    /\ werr' = [werr EXCEPT ![w] = text]
    /\ wpc' = [wpc EXCEPT ![w] = "fail_status"]
    /\ UNCHANGED <<now, tasks, files, queue, wtask, opc, oerr, callbacks, qlog, resp, wurl, maint>>

process_task_update_files(w) ==
    /\ wpc[w] = "update_files"
    /\ tasks' = update_task_files(tasks, wtask[w].task_id, wurl[w].audio_url, wurl[w].srt_url)
    /\ wpc' = [wpc EXCEPT ![w] = "update_status"]
    /\ UNCHANGED <<now, files, queue, wtask, werr, opc, oerr, callbacks,
                   synthCount, qlog, resp, wurl, maint>>

\* process_task returns to run: its locals are gone
Return(w) ==
    /\ wpc' = [wpc EXCEPT ![w] = "poll"]
    /\ wtask' = [wtask EXCEPT ![w] = NoTaskData]
    /\ werr' = [werr EXCEPT ![w] = NULL]
    /\ wurl' = [wurl EXCEPT ![w] = NoUrls]

process_task_completed(w) ==
    /\ wpc[w] = "update_status"
    /\ tasks' = update_task_status(tasks, wtask[w].task_id, "completed",
                                 wurl[w].audio_url, wurl[w].srt_url, NULL, now).rows
    /\ IF wtask[w].callback_url
       THEN wpc' = [wpc EXCEPT ![w] = "callback"] /\ UNCHANGED <<wtask, werr, wurl>>
       ELSE Return(w)
    /\ UNCHANGED <<now, files, queue, opc, oerr, callbacks, synthCount, qlog, resp, maint>>

process_task_failed(w) ==
    /\ wpc[w] = "fail_status"
    /\ tasks' = update_task_status(tasks, wtask[w].task_id, "failed", FALSE, FALSE, werr[w], now).rows
    /\ IF wtask[w].callback_url
       THEN wpc' = [wpc EXCEPT ![w] = "fail_callback"] /\ UNCHANGED <<wtask, werr, wurl>>
       ELSE Return(w)
    /\ UNCHANGED <<now, files, queue, opc, oerr, callbacks, synthCount, qlog, resp, maint>>

\* the payload send_callback POSTs
Payload(status, error) == [status |-> status, error |-> error]

send_callback(task_id, payload) ==
    callbacks' = [callbacks EXCEPT ![task_id] = Append(@, payload)]

process_task_callback(w) ==
    /\ wpc[w] = "callback"
    /\ send_callback(wtask[w].task_id, Payload("completed", NULL))
    /\ Return(w)
    /\ UNCHANGED <<now, tasks, files, queue, opc, oerr, synthCount, qlog, resp, maint>>

process_task_fail_callback(w) ==
    /\ wpc[w] = "fail_callback"
    /\ send_callback(wtask[w].task_id, Payload("failed", werr[w]))
    /\ Return(w)
    /\ UNCHANGED <<now, tasks, files, queue, opc, oerr, synthCount, qlog, resp, maint>>

\* src/api_server.py and src/task_worker.py with the queue of utils.redis_manager
root_submit_long_text_task(task_id, callback_url, priority) ==
    /\ IsNewId(task_id)
    /\ tasks' = [tasks EXCEPT ![task_id] =
                    [InsertRow("long_text", callback_url, now) EXCEPT !.priority = priority]]
    /\ files' = [files EXCEPT ![task_id] = @ \cup {"txt"}]
    /\ LET r == utils_push_task_to_queue(queue, "long_text", task_id, priority, now)
       IN  /\ queue' = r.queue
           /\ resp' = [resp EXCEPT ![task_id] = IF r.ret THEN "success" ELSE "error"]
    /\ UNCHANGED <<now, wpc, wtask, werr, opc, oerr, callbacks,
                   synthCount, qlog, wurl, maint>>

root_run_poll(w) ==
    /\ wpc[w] = "poll"
    /\ LET popped == utils_pop_task_from_queue(queue, "online")
       IN  IF popped.ret # NoTask
           THEN /\ queue' = popped.queue
                /\ wtask' = [wtask EXCEPT ![w] = [task_id |-> popped.ret, callback_url |-> FALSE]]
                /\ wpc' = [wpc EXCEPT ![w] = "process"]
           ELSE /\ queue' = popped.queue
                /\ LET found == get_next_task_select(tasks, TaskTypeArg)
                   IN  IF found = {}
                       THEN UNCHANGED <<wtask, wpc>>
                       ELSE \E i \in found :
                              /\ wtask' = [wtask EXCEPT ![w] =
                                    [task_id |-> i, callback_url |-> tasks[i].callback_url]]
                              /\ wpc' = [wpc EXCEPT ![w] = "claim"]
    /\ UNCHANGED <<now, tasks, files, werr, opc, oerr, callbacks,
                   synthCount, qlog, resp, wurl, maint>>

RootWorkerStep(w) ==
    \/ root_run_poll(w)
    \/ run_claim(w)
    \/ process_task_infer_ok(w)
    \/ \E text \in ErrTexts : process_task_infer_raise(w, text)
    \/ process_task_update_files(w)
    \/ process_task_completed(w)
    \/ process_task_failed(w)
    \/ process_task_callback(w)
    \/ process_task_fail_callback(w)

\* send_callback without its except clause: the exception of the POST reaches
\* the except of process_task, which writes failed
send_callback_reraise(rows, task_id, text, t) ==
    update_task_status(rows, task_id, "failed", FALSE, FALSE, text, t).rows

\* send_callback: except Exception as e: logger.error(...)
send_callback_except(rows, task_id, text, t) == rows

\* requests.post raises (connection error, timeout after 30 s) or
\* raise_for_status raises: send_callback logs it and returns
send_callback_raises(w, text) ==
    /\ wpc[w] \in {"callback", "fail_callback"}
    /\ tasks' = send_callback_except(tasks, wtask[w].task_id, text, now)
    /\ Return(w)
    /\ UNCHANGED <<now, files, queue, opc, oerr, callbacks, synthCount, qlog, resp, maint>>

\* the loop of a worker whose TOSUploader.from_env() succeeded
UploadWorkerStep(w) ==
    \/ run_poll(w)
    \/ run_claim(w)
    \/ \E a, b \in BOOLEAN : process_task_infer_ok_upload(w, a, b)
    \/ \E text \in ErrTexts : process_task_infer_raise(w, text)
    \/ process_task_update_files(w)
    \/ process_task_completed(w)
    \/ process_task_failed(w)
    \/ process_task_callback(w)
    \/ process_task_fail_callback(w)

\* the worker process dies (kill -9, power loss) wherever it is
crash(w) ==
    /\ wpc[w] # "crashed"
    /\ wpc' = [wpc EXCEPT ![w] = "crashed"]
    /\ wtask' = [wtask EXCEPT ![w] = NoTaskData]
    /\ werr' = [werr EXCEPT ![w] = NULL]
    /\ wurl' = [wurl EXCEPT ![w] = NoUrls]
    /\ UNCHANGED <<now, tasks, files, queue, opc, oerr, callbacks, synthCount,
                   qlog, resp, maint>>

WorkerStep(w) ==
    \/ run_poll(w)
    \/ run_claim(w)
    \/ process_task_infer_ok(w)
    \/ \E text \in ErrTexts : process_task_infer_raise(w, text)
    \/ process_task_update_files(w)
    \/ process_task_completed(w)
    \/ process_task_failed(w)
    \/ process_task_callback(w)
    \/ process_task_fail_callback(w)

\* the loop of a worker whose callbacks may fail
CallbackWorkerStep(w) ==
    \/ WorkerStep(w)
    \/ \E text \in ErrTexts : send_callback_raises(w, text)

OnlineStep(task_id) ==
    \/ online_tts_infer_ok(task_id)
    \/ \E v \in BOOLEAN, text \in ErrTexts : online_tts_infer_raise(task_id, v, text)
    \/ online_tts_update_files(task_id)
    \/ online_tts_completed(task_id)
    \/ online_tts_failed(task_id)

\* ---------------------------------------------------------- queue client
\* a client of RedisManager that pushes task references to the queue
\* "long_text" and pops from the same queue
queue_push(task_id, priority) ==
    /\ Len(qlog) < MaxCalls
    /\ LET r == push_task_to_queue(queue, "long_text", task_id, priority, now)
       IN  /\ queue' = r.queue
           /\ qlog' = Append(qlog, [op |-> "push", task_id |-> task_id,
                                    priority |-> priority, ok |-> r.ret])
    /\ UNCHANGED <<now, tasks, files, wpc, wtask, werr, opc, oerr, callbacks, synthCount, resp, wurl, maint>>

queue_pop ==
    /\ Len(qlog) < MaxCalls
    /\ LET r == pop_task_from_queue(queue, "long_text")
       IN  /\ queue' = r.queue
           /\ qlog' = Append(qlog, [op |-> "pop", task_id |-> r.ret,
                                    priority |-> r.priority, ok |-> r.ret # NoTask])
    /\ UNCHANGED <<now, tasks, files, wpc, wtask, werr, opc, oerr, callbacks, synthCount, resp, wurl, maint>>

ApiStep ==
    \/ \E i \in TaskIds, c \in BOOLEAN : submit_long_text_task(i, c, DefaultPriority)
    \/ \E i \in TaskIds : online_tts_create(i)
    \/ \E i \in TaskIds : OnlineStep(i)

\* requests, workers and crashes, all within one second of the clock
Next ==
    \/ ApiStep
    \/ \E w \in Workers : WorkerStep(w)
    \/ \E w \in Workers : crash(w)

Spec == Init /\ [][Next]_vars

\* the long-text flow with the clock running
NextTimed ==
    \/ Tick
    \/ \E i \in TaskIds, c \in BOOLEAN : submit_long_text_task(i, c, DefaultPriority)
    \/ \E w \in Workers : WorkerStep(w)
    \/ \E w \in Workers : crash(w)

\* A worker that has not crashed keeps taking the steps of its loop: every
\* await in run and process_task returns.
FairSpec ==
    /\ Init
    /\ [][NextTimed]_vars
    /\ \A w \in Workers : WF_vars(WorkerStep(w))

\* submit with failing writes of the File Store and of the Task Store
NextFault ==
    \/ \E i \in TaskIds, c \in BOOLEAN : submit_long_text_task(i, c, DefaultPriority)
    \/ \E i \in TaskIds, c \in BOOLEAN : submit_text_write_fails(i, c, DefaultPriority)
    \/ \E i \in TaskIds : submit_insert_fails(i)
    \/ \E w \in Workers : WorkerStep(w)

FaultSpec == Init /\ [][NextFault]_vars

\* src/api_server.py and src/task_worker.py; a worker keeps taking the steps of
\* its loop
NextRoot ==
    \/ \E i \in TaskIds, c \in BOOLEAN : root_submit_long_text_task(i, c, DefaultPriority)
    \/ \E w \in Workers : RootWorkerStep(w)

RootSpec ==
    /\ Init
    /\ [][NextRoot]_vars
    /\ \A w \in Workers : WF_vars(RootWorkerStep(w))

\* a deployment that runs a single worker process
OneWorker == {1}

\* one worker, callback endpoints that may fail
NextCallback ==
    \/ \E i \in TaskIds, c \in BOOLEAN : submit_long_text_task(i, c, DefaultPriority)
    \/ \E w \in OneWorker : CallbackWorkerStep(w)

CallbackSpec == Init /\ [][NextCallback]_vars

\* one worker with an uploader
NextUpload ==
    \/ \E i \in TaskIds, c \in BOOLEAN : submit_long_text_task(i, c, DefaultPriority)
    \/ \E w \in OneWorker : UploadWorkerStep(w)

UploadSpec == Init /\ [][NextUpload]_vars

\* process_task: the engine returned and save_audio_file or save_srt_file
\* raises (both re-raise the error of the write); audio_saved tells which
process_task_save_raises(w, audio_saved, text) ==
    /\ wpc[w] = "process"
    /\ synthCount' = [synthCount EXCEPT ![wtask[w].task_id] = Count(@)]
    /\ files' = [files EXCEPT ![wtask[w].task_id] =
                     IF audio_saved THEN @ \cup {"wav"} ELSE @]
    /\ werr' = [werr EXCEPT ![w] = text]
    /\ wpc' = [wpc EXCEPT ![w] = "fail_status"]
    /\ UNCHANGED <<now, tasks, queue, wtask, opc, oerr, callbacks, qlog, resp, wurl, maint>>

\* process_task: update_task_files or update_task_status(completed) raises
\* (the connection or the UPDATE fails); the except of process_task takes over
process_task_update_raises(w, text) ==
    /\ wpc[w] \in {"update_files", "update_status"}
    /\ werr' = [werr EXCEPT ![w] = text]
    /\ wpc' = [wpc EXCEPT ![w] = "fail_status"]
    /\ UNCHANGED <<now, tasks, files, queue, wtask, opc, oerr, callbacks,
                   synthCount, qlog, resp, wurl, maint>>

\* process_task: update_task_status(failed) raises inside the except clause;
\* the exception leaves process_task and the except of run logs it and sleeps
process_task_failed_raises(w) ==
    /\ wpc[w] = "fail_status"
    /\ Return(w)
    /\ UNCHANGED <<now, tasks, files, queue, opc, oerr, callbacks, synthCount,
                   qlog, resp, maint>>

ErrorWorkerStep(w) ==
    \/ WorkerStep(w)
    \/ \E a \in BOOLEAN, text \in ErrTexts : process_task_save_raises(w, a, text)
    \/ \E text \in ErrTexts : process_task_update_raises(w, text)
    \/ process_task_failed_raises(w)

\* long_text submissions and one worker whose file writes and Task Store
\* writes may raise
NextError ==
    \/ \E i \in TaskIds, c \in BOOLEAN : submit_long_text_task(i, c, DefaultPriority)
    \/ \E w \in OneWorker : ErrorWorkerStep(w)

ErrorSpec == Init /\ [][NextError]_vars

\* ------------------------------------------------------------ read endpoints

\* src/server/api_server.py calls redis_manager.get_task_status,
\* redis_manager.set_task_status and db_manager.get_task_status; RedisManager
\* defines get_task_status_cache and cache_task_status, DatabaseManager defines
\* get_task, and no class defines the names called: the call raises
\* AttributeError, which the except Exception of the endpoint turns into 500
StatusMethodsDefined == FALSE

Answer(endpoint, task_id, code, status, content) ==
    [endpoint |-> endpoint, task_id |-> task_id, code |-> code,
     status |-> status, content |-> content]

\* cache_task_status: set_cache("task_status:<task_id>", status_data, 7200)
cache_task_status(c, task_id, status) == [c EXCEPT ![task_id] = status]

\* get_task_status_cache: get_cache("task_status:<task_id>")
get_task_status_cache(c, task_id) == c[task_id]

\* GET /tts/long-text/status/{task_id}: the cached entry when there is one,
\* else the row, which is then cached
get_long_text_task_status(task_id) ==
    /\ IF ~StatusMethodsDefined
       THEN /\ answer' = Answer("status", task_id, 500, NULL, NULL)
            /\ UNCHANGED cache
       ELSE IF get_task_status_cache(cache, task_id) # NULL
       THEN /\ answer' = Answer("status", task_id, 200,
                                get_task_status_cache(cache, task_id), NULL)
            /\ UNCHANGED cache
       ELSE IF ~Exists(tasks, task_id)
       THEN /\ answer' = Answer("status", task_id, 404, NULL, NULL)
            /\ UNCHANGED cache
       ELSE /\ cache' = cache_task_status(cache, task_id, tasks[task_id].status)
            /\ answer' = Answer("status", task_id, 200, tasks[task_id].status, NULL)
    /\ UNCHANGED <<now, tasks, files, queue, wpc, wtask, werr, opc, oerr, callbacks,
                   synthCount, qlog, resp, wurl, cleaned, tasks_dir, calc, created, ext>>

\* GET /tts/long-text/result/{task_id} and GET /tts/long-text/srt/{task_id}:
\* 404 for no row, 400 for a row not completed; for a completed row
\* await db_manager.get_task_file_paths(task_id) awaits the dict a plain def
\* returns, the TypeError is answered 500 by the outer except Exception
get_file(endpoint, task_id) ==
    /\ IF ~StatusMethodsDefined
       THEN answer' = Answer(endpoint, task_id, 500, NULL, NULL)
       ELSE IF ~Exists(tasks, task_id)
       THEN answer' = Answer(endpoint, task_id, 404, NULL, NULL)
       ELSE IF tasks[task_id].status # "completed"
       THEN answer' = Answer(endpoint, task_id, 400, tasks[task_id].status, NULL)
       ELSE answer' = Answer(endpoint, task_id, 500, NULL, NULL)
    /\ UNCHANGED <<now, tasks, files, queue, wpc, wtask, werr, opc, oerr, callbacks,
                   synthCount, qlog, resp, wurl, cache, cleaned, tasks_dir, calc, created, ext>>

get_long_text_task_result(task_id) == get_file("result", task_id)

get_long_text_task_srt(task_id) == get_file("srt", task_id)

\* long_text submissions, one worker and the GET endpoints
NextRead ==
    \/ \E i \in TaskIds, c \in BOOLEAN : submit_long_text_task(i, c, DefaultPriority)
    \/ \E w \in OneWorker : WorkerStep(w)
    \/ \E i \in TaskIds : get_long_text_task_status(i)
    \/ \E i \in TaskIds : get_long_text_task_result(i)
    \/ \E i \in TaskIds : get_long_text_task_srt(i)

ReadSpec == Init /\ [][NextRead]_vars

\* ------------------------------------------------------------ cleanup script

\* CACHE_EXPIRE_DAYS (7 days by default), in ticks of the clock
ExpireTime == 1

\* scripts/cache_cleanup.py calls shutil.rmtree and does not import shutil
ShutilImported == FALSE

Path(dir, name) == [dir |-> dir, name |-> name]

\* TaskFileManager: storage_root = config.TEXT_STORAGE_DIR,
\* tasks_dir = storage_root / 'tasks', get_task_directory = tasks_dir / task_id
get_task_directory(task_id) == Path(<<"TEXT_STORAGE_DIR", "tasks">>, task_id)

\* cleanup_task_files: storage_dir = Path(config.TEXT_STORAGE_DIR),
\* task_folder = storage_dir / task_id
task_folder(task_id) == Path(<<"TEXT_STORAGE_DIR">>, task_id)

\* the task directory create_task_directory made is there
DirExists(fs, rows, removed, task_id) ==
    /\ Exists(rows, task_id) \/ fs[task_id] # {}
    /\ get_task_directory(task_id) \notin removed

\* get_expired_tasks without the status condition
get_expired_tasks_any_status(rows, t) ==
    {i \in TaskIds : Exists(rows, i) /\ rows[i].completed_at # NULL_T
                                     /\ rows[i].completed_at < t - ExpireTime}

\* get_expired_tasks: WHERE status = 'completed' AND completed_at < now - expire_days
get_expired_tasks(rows, t) ==
    {i \in TaskIds : /\ Exists(rows, i)
                     /\ rows[i].status = "completed"
                     /\ rows[i].completed_at < t - ExpireTime}

\* the directories cleanup_expired_tasks removes for the selected tasks:
\* task_folder when it exists and rmtree can be called
RemovedFolders(fs, rows, removed, selected) ==
    {task_folder(i) : i \in {j \in selected :
        /\ \E k \in TaskIds : /\ get_task_directory(k) = task_folder(j)
                               /\ DirExists(fs, rows, removed, k)
        /\ ShutilImported}}

\* cleanup_empty_directories: rmdir of every empty directory directly under
\* storage_dir; the one directory there is 'tasks', the tasks_dir of the File
\* Store, empty while no task directory exists
cleanup_empty_directories(fs, rows, removed, dir) ==
    IF dir /\ \A i \in TaskIds : ~DirExists(fs, rows, removed, i) THEN FALSE ELSE dir

\* run_once: cleanup_expired_tasks, then cleanup_empty_directories
run_once ==
    LET selected == get_expired_tasks(tasks, now)
        folders  == RemovedFolders(files, tasks, cleaned.removed, selected)
        removed  == cleaned.removed \cup folders
        fs       == [i \in TaskIds |->
                        IF get_task_directory(i) \in folders THEN {} ELSE files[i]]
    IN  /\ files' = fs
        /\ cleaned' = [runs |-> Count(cleaned.runs), selected |-> selected,
                       removed |-> removed]
        /\ tasks_dir' = cleanup_empty_directories(fs, tasks, removed, tasks_dir)
        /\ UNCHANGED <<now, tasks, queue, wpc, wtask, werr, opc, oerr, callbacks,
                       synthCount, qlog, resp, wurl, cache, answer, calc, created, ext>>

\* POST /tts/long-text/submit after tasks_dir was removed: create_task_directory
\* (mkdir without parents) raises FileNotFoundError, the endpoint answers 500
submit_no_tasks_dir(task_id) ==
    /\ ~tasks_dir
    /\ IsNewId(task_id)
    /\ resp' = [resp EXCEPT ![task_id] = "error"]
    /\ UNCHANGED <<now, tasks, files, queue, wpc, wtask, werr, opc, oerr, callbacks,
                   synthCount, qlog, wurl, maint>>

\* time passes, long enough for a completed task to outlive the retention
TickRetention ==
    /\ now <= MaxTime + ExpireTime
    /\ now' = now + 1
    /\ UNCHANGED <<tasks, files, queue, wpc, wtask, werr, opc, oerr, callbacks,
                   synthCount, qlog, resp, wurl, maint>>

\* long_text submissions, one worker and the cleanup script, with the clock
NextCleanup ==
    \/ TickRetention
    \/ \E i \in TaskIds : tasks_dir /\ submit_long_text_task(i, FALSE, DefaultPriority)
    \/ \E i \in TaskIds : submit_no_tasks_dir(i)
    \/ \E w \in OneWorker :
          \/ run_poll(w)
          \/ run_claim(w)
          \/ process_task_infer_ok(w)
          \/ \E text \in ErrTexts : process_task_infer_raise(w, text)
          \/ process_task_update_files(w)
          \/ process_task_completed(w)
          \/ process_task_failed(w)
    \/ run_once

CleanupSpec == Init /\ [][NextCleanup]_vars

\* ------------------------------------------------------------ score

\* values of int(datetime.now().timestamp()) of two pushes: the same second,
\* the next second, and ScoreFactor seconds (about 11.6 days) apart
Stamps == {0, 1, ScoreFactor, ScoreFactor + 1}

\* two pushes with any priorities, made at any two of the times
ScoreInit ==
    /\ FlowInit
    /\ cache = [i \in TaskIds |-> NULL]
    /\ answer = NoAnswer
    /\ cleaned = NoCleanup
    /\ tasks_dir = TRUE
    /\ created = <<>>
    /\ ExtInit
    /\ \E p1, p2 \in Priorities, t1, t2 \in Stamps :
          calc = [NoCalc EXCEPT !.p1 = p1, !.t1 = t1, !.p2 = p2, !.t2 = t2]

\* push_task_to_queue: score = priority * 1000000 + int(timestamp), for both
compute_scores ==
    /\ calc.score1 = NULL_T
    /\ calc' = [calc EXCEPT !.score1 = Score(calc.p1, calc.t1),
                            !.score2 = Score(calc.p2, calc.t2)]
    /\ UNCHANGED <<now, tasks, files, queue, wpc, wtask, werr, opc, oerr, callbacks,
                   synthCount, qlog, resp, wurl, cache, answer, cleaned, tasks_dir,
                   created, ext>>

NextScore == compute_scores

ScoreSpec == ScoreInit /\ [][NextScore]_vars

\* ------------------------------------------------------------ task ids

\* INSERT INTO tts_tasks: the table has a unique key on task_id, so the INSERT
\* of a task_id that has a row raises
insert_row(rows, task_id, row) ==
    IF Exists(rows, task_id)
    THEN [rows |-> rows, ret |-> FALSE]
    ELSE [rows |-> [rows EXCEPT ![task_id] = row], ret |-> TRUE]

\* create_*_task with the exception of the INSERT swallowed
create_returns_always(ins) == TRUE

\* create_*_task reaches return task_id when the INSERT did not raise
create_returns(ins) == ins.ret

\* one call of create_*_task, as the history records it
Created(task_id, present, returned) ==
    [task_id |-> task_id, present |-> present, returned |-> returned]

\* create_long_text_task with any id _generate_short_id can draw:
\* create_task_directory (exist_ok), save_text_file (overwrites), INSERT;
\* submit pushes and answers when create returned, answers 500 when it raised
create_long_text_task(task_id) ==
    /\ Len(created) < MaxCalls
    /\ LET ins == insert_row(tasks, task_id, InsertRow("long_text", FALSE, now))
           r   == push_task_to_queue(queue, "long_text", task_id, DefaultPriority, now)
       IN  /\ tasks' = ins.rows
           /\ files' = [files EXCEPT ![task_id] = @ \cup {"txt"}]
           /\ created' = Append(created,
                                Created(task_id, Exists(tasks, task_id), create_returns(ins)))
           /\ IF create_returns(ins)
              THEN /\ queue' = r.queue
                   /\ resp' = [resp EXCEPT ![task_id] = IF r.ret THEN "success" ELSE "error"]
              ELSE UNCHANGED <<queue, resp>>
    /\ UNCHANGED <<now, wpc, wtask, werr, opc, oerr, callbacks, synthCount, qlog, wurl,
                   cache, answer, cleaned, tasks_dir, calc, ext>>

\* create_online_task with any id _generate_short_id can draw; online_tts goes
\* on to the engine when create returned, answers 500 when it raised
create_online_task(task_id) ==
    /\ Len(created) < MaxCalls
    /\ LET ins == insert_row(tasks, task_id, InsertRow("online", FALSE, now))
       IN  /\ tasks' = ins.rows
           /\ files' = [files EXCEPT ![task_id] = @ \cup {"txt"}]
           /\ created' = Append(created,
                                Created(task_id, Exists(tasks, task_id), create_returns(ins)))
           /\ opc' = IF create_returns(ins) THEN [opc EXCEPT ![task_id] = "infer"] ELSE opc
    /\ UNCHANGED <<now, queue, wpc, wtask, werr, oerr, callbacks, synthCount, qlog,
                   resp, wurl, cache, answer, cleaned, tasks_dir, calc, ext>>

\* submissions and online requests whose ids are drawn at random
NextId ==
    \/ \E i \in TaskIds : create_long_text_task(i)
    \/ \E i \in TaskIds : create_online_task(i)
    \/ \E i \in TaskIds : OnlineStep(i)

IdSpec == Init /\ [][NextId]_vars

\* ------------------------------------------------------------ result fields

\* update_task_status(task_id, status='completed', result=..., processing_time=...,
\* actual_duration=..., file_size=..., audio_url=..., srt_url=...): the SET list
\* is built from status, the paths, the urls and error_message; result,
\* processing_time, actual_duration and file_size are accepted and not used
update_task_status_result(rows, task_id, res, audio_url, srt_url, t) ==
    update_task_status(rows, task_id, "completed", audio_url, srt_url, NULL, t).rows

\* get_task: SELECT * FROM tts_tasks WHERE task_id = %s
get_task(rows, task_id) == IF Exists(rows, task_id) THEN rows[task_id] ELSE NoRow

\* process_task: the engine returns, processing_time, audio_duration and
\* wav_bytes are computed, the files are saved
process_task_infer_ok_result(w, res) ==
    /\ wpc[w] = "process"
    /\ synthCount' = [synthCount EXCEPT ![wtask[w].task_id] = Count(@)]
    /\ files' = [files EXCEPT ![wtask[w].task_id] = @ \cup {"wav", "srt"}]
    /\ wres' = [wres EXCEPT ![w] = res]
    /\ wpc' = [wpc EXCEPT ![w] = "update_files"]
    /\ UNCHANGED <<now, tasks, queue, wtask, werr, opc, oerr, callbacks, qlog, resp,
                   wurl, house, wloop, rcache, up, texts, rl>>

\* process_task: update_task_status(completed) with the result of the synthesis
process_task_completed_result(w) ==
    /\ wpc[w] = "update_status"
    /\ tasks' = update_task_status_result(tasks, wtask[w].task_id, wres[w],
                                          wurl[w].audio_url, wurl[w].srt_url, now)
    /\ Return(w)
    /\ wres' = [wres EXCEPT ![w] = NoResult]
    /\ UNCHANGED <<now, files, queue, opc, oerr, callbacks, synthCount, qlog, resp,
                   house, wloop, rcache, up, texts, rl>>

\* long_text submissions without callback and one worker, with the clock
NextResult ==
    \/ Tick
    \/ \E i \in TaskIds : submit_long_text_task(i, FALSE, DefaultPriority)
    \/ \E w \in OneWorker :
          \/ run_poll(w)
          \/ run_claim(w)
          \/ \E res \in Results : process_task_infer_ok_result(w, res)
          \/ \E text \in ErrTexts : process_task_infer_raise(w, text)
          \/ process_task_update_files(w)
          \/ process_task_completed_result(w)
          \/ process_task_failed(w)

ResultSpec == Init /\ [][NextResult]_vars

\* ------------------------------------------------------------ worker loop

\* main: worker.initialize() has returned and run() starts: self.running = True
run_start(w) ==
    /\ wloop[w].phase = "initialize"
    /\ wloop' = [wloop EXCEPT ![w].phase = "run", ![w].running = TRUE,
                              ![w].consecutive_empty_polls = 0]
    /\ UNCHANGED <<flow, house, wres, rcache, up, texts, rl>>

\* SIGINT / SIGTERM: signal_handler calls worker.stop(): self.running = False
stop(w) ==
    /\ wloop[w].phase # "returned"
    /\ ~wloop[w].stop_called
    /\ wloop' = [wloop EXCEPT ![w].running = FALSE, ![w].stop_called = TRUE]
    /\ UNCHANGED <<flow, house, wres, rcache, up, texts, rl>>

\* the sleep after an empty poll that grows with the count
empty_poll_sleep_growing(n) == n * PollInterval

\* run: the sleep after the n-th empty poll in a row
empty_poll_sleep(n) == IF n > max_empty_polls THEN PollInterval * 2 ELSE PollInterval

\* run, one iteration begun with self.running true: the queue 'online' is
\* empty, get_next_task selects; with no pending row the count goes up and the
\* worker sleeps
run_iteration(w) ==
    /\ wloop[w].phase = "run" /\ wloop[w].running
    /\ wpc[w] = "poll"
    /\ LET found == get_next_task_select(tasks, TaskTypeArg)
           n     == wloop[w].consecutive_empty_polls + 1
       IN  IF pop_task_from_queue(queue, "online").ret = NoTask /\ found = {}
           THEN /\ n <= MaxPolls
                /\ wloop' = [wloop EXCEPT ![w].consecutive_empty_polls = n,
                                          ![w].sleep = empty_poll_sleep(n)]
                /\ UNCHANGED <<wtask, wpc>>
           ELSE /\ pop_task_from_queue(queue, "online").ret = NoTask
                /\ \E i \in found :
                      /\ wtask' = [wtask EXCEPT ![w] =
                            [task_id |-> i, callback_url |-> tasks[i].callback_url]]
                      /\ wpc' = [wpc EXCEPT ![w] = "claim"]
                /\ UNCHANGED wloop
    /\ UNCHANGED <<now, tasks, files, queue, werr, opc, oerr, callbacks,
                   synthCount, qlog, resp, wurl, house, wres, rcache, up, texts, rl>>

\* run: get_next_task returns the task: consecutive_empty_polls = 0, then
\* process_task
run_obtained(w) ==
    /\ wpc[w] = "claim"
    /\ tasks' = get_next_task_update(tasks, wtask[w].task_id, now)
    /\ wpc' = [wpc EXCEPT ![w] = "process"]
    /\ wloop' = [wloop EXCEPT ![w].consecutive_empty_polls = 0, ![w].sleep = 0]
    /\ UNCHANGED <<now, files, queue, wtask, werr, opc, oerr, callbacks,
                   synthCount, qlog, resp, wurl, house, wres, rcache, up, texts, rl>>

\* run: the pop or get_next_task raises; except Exception: sleep(poll_interval * 2)
run_iteration_raises(w) ==
    /\ wloop[w].phase = "run" /\ wloop[w].running
    /\ wpc[w] = "poll"
    /\ wloop' = [wloop EXCEPT ![w].sleep = PollInterval * 2]
    /\ UNCHANGED <<flow, house, wres, rcache, up, texts, rl>>

\* run: while self.running is false at the top of the loop: run returns
run_returns(w) ==
    /\ wloop[w].phase = "run" /\ ~wloop[w].running
    /\ wpc[w] = "poll"
    /\ wloop' = [wloop EXCEPT ![w].phase = "returned"]
    /\ UNCHANGED <<flow, house, wres, rcache, up, texts, rl>>

\* process_task for the task the worker holds
LoopProcessStep(w) ==
    \/ process_task_infer_ok(w)
    \/ \E text \in ErrTexts : process_task_infer_raise(w, text)
    \/ process_task_update_files(w)
    \/ process_task_completed(w)
    \/ process_task_failed(w)

LoopWorkerStep(w) ==
    \/ run_start(w)
    \/ run_iteration(w)
    \/ run_obtained(w)
    \/ run_iteration_raises(w)
    \/ run_returns(w)
    \/ LoopProcessStep(w)

\* the worker process from main on
LoopInit ==
    /\ FlowInit /\ HouseInit /\ ResultInit /\ CacheInit /\ UploadInit /\ TextInit /\ RateInit
    /\ wloop = [w \in Workers |-> Initializing]

\* long_text submissions without callback, one worker process and its signals
NextLoop ==
    \/ \E i \in TaskIds : submit_long_text_task(i, FALSE, DefaultPriority)
    \/ \E w \in OneWorker : LoopWorkerStep(w)
    \/ \E w \in OneWorker : stop(w)

LoopSpec == LoopInit /\ [][NextLoop]_vars

\* ------------------------------------------------------------ cache

\* json.loads(text): the value of a JSON text; other texts raise JSONDecodeError
IsJson(text) == text \in {"1", "true", "{\"count\": 1}"}

json_loads(text) ==
    CASE text = "1" -> Value("int", "1")
      [] text = "true" -> Value("bool", "true")
      [] text = "{\"count\": 1}" -> Value("dict", "{\"count\": 1}")
      [] OTHER -> NoValue

\* get_cache: json.loads(value), on JSONDecodeError the string itself
decode(text) == IF IsJson(text) THEN json_loads(text) ELSE Value("str", text)

\* set_cache: json.dumps for a dict or list, else the value as Redis encodes
\* it (a str as it is, an int as its decimal text)
encode(value) == value.text

\* set_cache(key, value, expire): SETEX key expire text
set_cache(key, value) ==
    /\ rcache' = [rcache EXCEPT !.kv[key] = encode(value), !.put[key] = value]
    /\ UNCHANGED <<flow, house, wres, wloop, up, texts, rl>>

\* get_cache(key): None when the key is absent
get_cache(key) ==
    /\ rcache' = [rcache EXCEPT !.got =
                      [key |-> key,
                       value |-> IF rcache.kv[key] = NULL THEN NoValue
                                 ELSE decode(rcache.kv[key])]]
    /\ UNCHANGED <<flow, house, wres, wloop, up, texts, rl>>

\* the entry expires
cache_expires(key) ==
    /\ rcache.kv[key] # NULL
    /\ rcache' = [rcache EXCEPT !.kv[key] = NULL]
    /\ UNCHANGED <<flow, house, wres, wloop, up, texts, rl>>

NextCache ==
    \/ \E k \in CacheKeys, v \in CacheValues : set_cache(k, v)
    \/ \E k \in CacheKeys : get_cache(k)
    \/ \E k \in CacheKeys : cache_expires(k)

CacheSpec == Init /\ [][NextCache]_vars

\* ------------------------------------------------------------ TOS upload

\* _do_upload: object_key = f"{self.remote_path}/{file_name}"
object_key(local_path) == <<remote_path, local_path>>

\* a wait that does not grow
wait_time_constant(attempt) == 1

\* wait_time = 2 ** attempt
wait_time(attempt) == 2 ^ attempt

\* upload(local_path, max_retries) up to the loop: FileNotFoundError when the
\* file is missing; with range(max_retries) empty the loop is skipped and
\* `raise last_exception` raises None, a TypeError
upload_call(local_path, max_retries, exists) ==
    /\ up.phase \in {"idle", "returned", "raised"}
    /\ up' = [NoUpload EXCEPT
                 !.local_path = local_path,
                 !.max_retries = max_retries,
                 !.phase = IF ~exists \/ max_retries = 0 THEN "raised" ELSE "loop",
                 !.outcome = IF ~exists THEN "FileNotFoundError"
                             ELSE IF max_retries = 0 THEN "TypeError" ELSE NULL]
    /\ UNCHANGED <<flow, house, wres, wloop, rcache, texts, rl>>

\* one pass of the loop whose _do_upload returns the object key
upload_attempt_ok ==
    /\ up.phase = "loop"
    /\ up' = [up EXCEPT !.attempts = Append(@, "ok"),
                        !.phase = "returned",
                        !.outcome = object_key(up.local_path)]
    /\ UNCHANGED <<flow, house, wres, wloop, rcache, texts, rl>>

\* one pass of the loop whose _do_upload raises e: sleep and go on, or leave
\* the loop and raise last_exception
upload_attempt_raises(e) ==
    /\ up.phase = "loop"
    /\ LET last == ~(up.attempt < up.max_retries - 1)
       IN  up' = [up EXCEPT !.attempts = Append(@, e),
                            !.last_exception = e,
                            !.waits = IF last THEN @ ELSE Append(@, wait_time(up.attempt)),
                            !.attempt = IF last THEN @ ELSE @ + 1,
                            !.phase = IF last THEN "raised" ELSE "loop",
                            !.outcome = IF last THEN e ELSE NULL]
    /\ UNCHANGED <<flow, house, wres, wloop, rcache, texts, rl>>

NextRetry ==
    \/ \E p \in LocalPaths, m \in 0..MaxRetries, x \in BOOLEAN : upload_call(p, m, x)
    \/ upload_attempt_ok
    \/ \E e \in UploadErrors : upload_attempt_raises(e)

RetrySpec == Init /\ [][NextRetry]_vars

\* ------------------------------------------------------------ text files

\* save_text_file(task_id, text): create_task_directory (mkdir exist_ok=True),
\* then open(text_file_path, 'w') and write: a file that is there is replaced
save_text_file(store, task_id, text) == [store EXCEPT ![task_id] = text]

\* create_online_task / create_long_text_task(text, ...) with the id
\* _generate_short_id drew: directory, text file, then the INSERT
create_task(task_id, task_type, text) ==
    /\ Len(created) < MaxCalls
    /\ texts' = save_text_file(texts, task_id, text)
    /\ files' = [files EXCEPT ![task_id] = @ \cup {"txt"}]
    /\ LET ins == insert_row(tasks, task_id, InsertRow(task_type, FALSE, now))
       IN  /\ tasks' = ins.rows
           /\ created' = Append(created,
                                Created(task_id, Exists(tasks, task_id), create_returns(ins)))
    /\ UNCHANGED <<now, queue, wpc, wtask, werr, opc, oerr, callbacks, synthCount, qlog,
                   resp, wurl, cache, answer, cleaned, tasks_dir, calc,
                   wres, wloop, rcache, up, rl>>

NextText ==
    \E i \in TaskIds, k \in {"online", "long_text"}, text \in Texts : create_task(i, k, text)

TextSpec == Init /\ [][NextText]_vars

\* ------------------------------------------------------------ rate limit

\* the request returns True: one more admission in the running window
Admit(r) == [rl EXCEPT !.req[r] = [pc |-> "idle", current_count |-> Absent],
                       !.last[r] = "admitted",
                       !.rejected = FALSE,
                       !.admitted = @ + 1]

\* redis.incrby(key, 1): a key that is absent is created with value 1 and
\* without expiry; a key that is there keeps its expiry
incrby(kv) ==
    IF kv.count = Absent THEN [count |-> 1, ttl |-> NoExpiry]
    ELSE [count |-> kv.count + 1, ttl |-> kv.ttl]

\* increment_counter(key): redis.incrby(key, amount)
increment_counter(kv) == incrby(kv)

\* check_rate_limit: current_count = await redis_manager.get_cache(key)
rate_get(r) ==
    /\ rl.req[r].pc = "idle"
    /\ rl' = [rl EXCEPT !.req[r] = [pc |-> "got", current_count |-> rl.count]]
    /\ UNCHANGED <<flow, house, wres, wloop, rcache, up, texts>>

\* check_rate_limit, current_count is None: set_cache(key, "1", expire=60)
\* (SETEX: value and expiry are set whatever the key holds), return True
rate_first(r) ==
    /\ rl.req[r].pc = "got"
    /\ rl.req[r].current_count = Absent
    /\ rl' = [Admit(r) EXCEPT !.count = 1, !.ttl = RateExpire,
                              !.wleft = IF rl.count = Absent THEN RateExpire ELSE @,
                              !.admitted = IF rl.count = Absent THEN 1 ELSE @]
    /\ UNCHANGED <<flow, house, wres, wloop, rcache, up, texts>>

\* check_rate_limit, int(current_count) >= RATE_LIMIT_PER_MINUTE: 429
rate_reject(r) ==
    /\ rl.req[r].pc = "got"
    /\ rl.req[r].current_count # Absent
    /\ rl.req[r].current_count >= RATE_LIMIT_PER_MINUTE
    /\ rl' = [rl EXCEPT !.req[r] = [pc |-> "idle", current_count |-> Absent],
                        !.last[r] = "429",
                        !.rejected = TRUE]
    /\ UNCHANGED <<flow, house, wres, wloop, rcache, up, texts>>

\* check_rate_limit, the count read is below the limit:
\* increment_counter(key), return True
rate_increment(r) ==
    /\ rl.req[r].pc = "got"
    /\ rl.req[r].current_count # Absent
    /\ rl.req[r].current_count < RATE_LIMIT_PER_MINUTE
    /\ LET kv == increment_counter([count |-> rl.count, ttl |-> rl.ttl])
       IN  rl' = [Admit(r) EXCEPT !.count = kv.count, !.ttl = kv.ttl,
                                  !.wleft = IF rl.count = Absent THEN RateExpire ELSE @,
                                  !.admitted = IF rl.count = Absent THEN 1 ELSE @]
    /\ UNCHANGED <<flow, house, wres, wloop, rcache, up, texts>>

\* one step of the clock: the expiry of the key comes nearer and the key is
\* removed when it is reached; so does the end of the window that began when
\* the key was created, and a key that outlives it begins the next window
rate_tick ==
    /\ rl.ttl # NoExpiry \/ rl.wleft > 0
    /\ LET expired == rl.ttl = 1
           over == rl.wleft = 1
       IN  rl' = [rl EXCEPT
                    !.count = IF expired THEN Absent ELSE @,
                    !.ttl = IF rl.ttl = NoExpiry \/ expired THEN NoExpiry ELSE @ - 1,
                    !.wleft = IF over THEN (IF rl.count # Absent /\ ~expired THEN RateExpire ELSE 0)
                              ELSE IF @ > 0 THEN @ - 1 ELSE 0,
                    !.admitted = IF over THEN 0 ELSE @]
    /\ UNCHANGED <<flow, house, wres, wloop, rcache, up, texts>>

check_rate_limit(r) ==
    \/ rate_get(r)
    \/ rate_first(r)
    \/ rate_reject(r)
    \/ rate_increment(r)

NextRate ==
    \/ \E r \in Requests : check_rate_limit(r)
    \/ rate_tick

RateSpec == Init /\ [][NextRate]_vars

\* the clock goes on and every request that entered check_rate_limit leaves
\* it; clients keep sending requests
FairRateSpec ==
    /\ RateSpec
    /\ WF_vars(rate_tick)
    /\ \A r \in Requests : WF_vars(check_rate_limit(r))

\* submissions of every priority and one worker, with the clock running
NextDispatch ==
    \/ Tick
    \/ \E i \in TaskIds, c \in BOOLEAN, p \in Priorities : submit_long_text_task(i, c, p)
    \/ \E w \in OneWorker : WorkerStep(w)

DispatchSpec == Init /\ [][NextDispatch]_vars

\* the queue operations on their own, with the clock running
NextQueue ==
    \/ Tick
    \/ \E i \in QueueIds, p \in Priorities : queue_push(i, p)
    \/ queue_pop

QueueSpec == Init /\ [][NextQueue]_vars

\* ================================================================ claims
Terminal == {"completed", "failed"}

AllowedTransitions ==
    {<<"pending", "processing">>, <<"processing", "completed">>,
     <<"processing", "failed">>}

\* positions of a worker that hold a task get_next_task or the queue returned
Holding == {"process", "update_files", "update_status", "callback",
            "fail_status", "fail_callback"}

\* the step is a call update_task_status(task_id, req) by a worker or by online_tts
UpdateStatusCalled(task_id, req) ==
    LET at == IF req = "completed" THEN "update_status" ELSE "fail_status"
    IN  \/ \E w \in Workers :
              /\ wpc[w] = at
              /\ wtask[w].task_id = task_id
              /\ wpc'[w] \notin {at, "crashed"}
        \/ opc[task_id] = at /\ opc'[task_id] = "done"

\* C1: update_task_status changes a task's status only for pending->processing,
\* processing->completed and processing->failed; for every other pair of current
\* and requested status it returns false and leaves the row unchanged.
C1_OnlyValidTransitions ==
    [][\A i \in TaskIds, req \in Terminal :
          (UpdateStatusCalled(i, req) /\ <<tasks[i].status, req>> \notin AllowedTransitions)
              => /\ ~update_task_status(tasks, i, req, FALSE, FALSE, NULL, now).ret
                 /\ tasks'[i] = tasks[i]]_vars

\* C2: when several workers try to claim the same pending task through
\* get_next_task, exactly one of them obtains it: no task is held by two workers.
C2_SingleClaim ==
    \A i \in TaskIds :
        Cardinality({w \in Workers : wpc[w] \in Holding /\ wtask[w].task_id = i}) <= 1

\* C3: for every long_text task the engine is started at most once, over all
\* workers.
C3_SynthesisAtMostOnce ==
    \A i \in TaskIds : tasks[i].task_type = "long_text" => synthCount[i] <= 1

\* C4: once a task's status is completed or failed, no later operation of the
\* API server or of a worker changes it.
C4_TerminalIsFinal ==
    [][\A i \in TaskIds :
          tasks[i].status \in Terminal => tasks'[i].status = tasks[i].status]_vars

\* C9: for every task with a callback_url exactly one callback POST is issued
\* over the task's lifetime, and only after a terminal status was written to
\* its row (a terminal write is what sets completed_at).
C9_CallbackExactlyOnce ==
    \A i \in TaskIds :
        /\ Len(callbacks[i]) <= 1
        /\ (Len(callbacks[i]) >= 1 => tasks[i].completed_at # NULL_T)

\* worker w takes a step of its own (not its crash) out of position at
Leaves(w, at) == wpc[w] = at /\ wpc'[w] \notin {at, "crashed"}

\* every engine call made for the task raised
EngineOnlyRaised(i) == synthCount[i] >= 1 /\ "wav" \notin files[i]

\* no worker has the task in hand, and none was lost with a task in hand
Settled(i) == \A w \in Workers : wtask[w].task_id # i /\ wpc[w] # "crashed"

Pushes(log) == {k \in DOMAIN log : log[k].op = "push"}

\* the pushes of log name pairwise distinct tasks
DistinctPushes(log) ==
    \A j, k \in Pushes(log) : log[j].task_id = log[k].task_id => j = k

\* positions of the pushes of log[1..n] whose task no pop of log[1..n] returned
Waiting(log, n) ==
    {k \in Pushes(log) : /\ k <= n
                          /\ \A m \in (k + 1)..n :
                                ~(log[m].op = "pop" /\ log[m].task_id = log[k].task_id)}

\* the push that goes first: highest priority, earliest among equals
First(log, n) ==
    CHOOSE k \in Waiting(log, n) :
        \A m \in Waiting(log, n) :
            \/ log[m].priority < log[k].priority
            \/ log[m].priority = log[k].priority /\ k <= m

\* C5: for pushes of distinct tasks to one queue, every pop returns the
\* waiting entry of highest priority, the earliest pushed among entries of
\* equal priority, and returns nothing only when no entry is waiting.
C5_PriorityThenFifo ==
    DistinctPushes(qlog) =>
        \A n \in DOMAIN qlog :
            qlog[n].op = "pop" =>
                IF Waiting(qlog, n - 1) = {}
                THEN qlog[n].task_id = NoTask
                ELSE qlog[n].task_id = qlog[First(qlog, n - 1)].task_id

EntriesOf(i) == {e \in queue["long_text"] : e.member.task_id = i}

\* C6: the queue holds at most one entry per task_id, and after a task_id was
\* pushed twice with different priorities, with no pop since the first of the
\* two pushes, it holds exactly one entry for it, scored with the priority of
\* the later push.
C6_OneEntryPerTask ==
    \A i \in QueueIds :
        /\ Cardinality(EntriesOf(i)) <= 1
        /\ \A j, k \in Pushes(qlog) :
              ( /\ j < k
                /\ qlog[j].task_id = i /\ qlog[k].task_id = i
                /\ qlog[j].priority # qlog[k].priority
                /\ \A m \in j..Len(qlog) :
                      qlog[m].op = "push" /\ (m > k => qlog[m].task_id # i) )
              => \E e \in EntriesOf(i) :
                    /\ EntriesOf(i) = {e}
                    /\ e.score \div ScoreFactor = qlog[k].priority

\* ------------------------------------------------------- liveness claims
Crashed(w) == wpc[w] = "crashed"

\* a task in processing that no running worker has in hand, started at least
\* LivenessThreshold seconds ago
Orphaned(i) ==
    /\ tasks[i].status = "processing"
    /\ \A w \in Workers : wtask[w].task_id # i
    /\ now - tasks[i].started_at >= LivenessThreshold

\* C7: a task left in processing by a crashed worker, with started_at older
\* than the liveness threshold, is eventually returned to pending.
C7_OrphanRecovered ==
    \A i \in TaskIds : Orphaned(i) ~> (tasks[i].status = "pending")

NoQueueEntry(i) == \A name \in QueueNames : \A e \in queue[name] : e.member.task_id # i

C11_CompletedHasFiles ==
    \A i \in TaskIds :
        (tasks[i].task_type = "long_text" /\ tasks[i].status = "completed")
            => /\ {"txt", "wav", "srt"} \subseteq files[i]
               /\ tasks[i].audio_file_path

\* C12: when the write of the text file or the INSERT fails during
\* create_long_text_task, the request is answered with an error, no row exists
\* for the task and no queue entry was pushed for it: every row answered for
\* has its text file, and a request whose row or text file is missing was
\* answered with an error and has neither row nor queue entry.
C12_CreationFailsClean ==
    \A i \in TaskIds :
        (resp[i] # "none" /\ ~(Exists(tasks, i) /\ "txt" \in files[i]))
            => /\ resp[i] = "error"
               /\ ~Exists(tasks, i)
               /\ \A name \in QueueNames : \A e \in queue[name] : e.member.task_id # i

\* C13: whenever submit answered with an error, no pending row remains for the
\* request and no worker ever runs the engine for it.
C13_ErrorLeavesNothing ==
    \A i \in TaskIds :
        resp[i] = "error" => (tasks[i].status # "pending" /\ synthCount[i] = 0)

\* ---------------------------------------------------------- worker claims
\* C14: whenever a worker is in the engine call for a task, the task's status
\* in the Task Store is processing.
C14_SynthesisOnlyWhileProcessing ==
    \A w \in Workers :
        wpc[w] = "process" => tasks[wtask[w].task_id].status = "processing"

\* C15: started_at is written once: a value that was written is never
\* overwritten, and a task in the engine call has it set.
C15_StartedAtOnce ==
    [][\A i \in TaskIds :
          /\ tasks[i].started_at # NULL_T => tasks'[i].started_at = tasks[i].started_at
          /\ \A w \in Workers :
                (wpc'[w] = "process" /\ wtask'[w].task_id = i)
                    => tasks'[i].started_at # NULL_T]_vars

\* C16: completed_at is written once, at the transition into completed or
\* failed: a value that was written is never overwritten.
C16_CompletedAtOnce ==
    [][\A i \in TaskIds :
          tasks[i].completed_at # NULL_T
              => tasks'[i].completed_at = tasks[i].completed_at]_vars

\* C17: when a worker that was idle takes a long_text task, no other pending
\* long_text task has a higher priority, whichever was submitted first.
C17_HigherPriorityFirst ==
    [][\A w \in Workers, i, j \in TaskIds :
          ( /\ wpc[w] = "poll" /\ wpc'[w] \in {"claim", "process"}
            /\ wtask'[w].task_id = i
            /\ tasks[i].task_type = "long_text"
            /\ tasks[j].task_type = "long_text"
            /\ tasks[j].status = "pending" )
          => tasks[j].priority <= tasks[i].priority]_vars

\* an entry for the task is in the queue submit pushes to
Queued(i) == \E e \in queue["long_text"] : e.member.task_id = i

\* C18: every queue entry submit pushed is eventually popped by a running
\* worker.
C18_QueueDrains ==
    \A i \in TaskIds : Queued(i) ~> ~Queued(i)

\* C19: no worker ever claims or processes the row of an online task.
C19_OnlineNotClaimed ==
    \A w \in Workers :
        wpc[w] \in Holding \cup {"claim"}
            => tasks[wtask[w].task_id].task_type # "online"

\* ---------------------------------------------------------- upload claims
UploadFailed(w) == wurl[w].upload \in {"audio_failed", "srt_failed"}

C21_CallbackFailureNoEffect ==
    [][\A w \in Workers :
          (wpc[w] \in {"callback", "fail_callback"} /\ wpc'[w] # wpc[w])
              => /\ tasks' = tasks
                 /\ files' = files
                 /\ wpc'[w] = "poll"]_vars

\* the callback of a finished task failed, and the same worker is processing
\* the next task
C21_Witness ==
    \E i, j \in TaskIds, w \in Workers :
        /\ i # j
        /\ tasks[i].callback_url
        /\ tasks[i].status \in Terminal
        /\ callbacks[i] = <<>>
        /\ wpc[w] = "process"
        /\ wtask[w].task_id = j

\* C22: once a task is failed, no worker obtains it and no worker runs the
\* engine for it: no step takes a worker into process_task for the task and no
\* engine call for it ends.
C22_FailedNotRetried ==
    [][\A i \in TaskIds, w \in Workers :
          tasks[i].status = "failed"
              => /\ ~(wpc[w] # "process" /\ wpc'[w] = "process" /\ wtask'[w].task_id = i)
                 /\ ~(Leaves(w, "process") /\ wtask[w].task_id = i)]_vars

\* C23: whatever raises while a worker processes a task, the task is not left
\* in processing by a running worker: a row in processing is in the hands of a
\* worker that is still inside process_task for it, and no worker has stopped.
C23_ExceptionAbsorbed ==
    \A i \in TaskIds :
        /\ tasks[i].status = "processing"
               => \E w \in Workers : wtask[w].task_id = i /\ wpc[w] \in Holding
        /\ \A w \in Workers : wpc[w] # "crashed"

\* the step answers a GET request of the endpoint for the task
Answers(endpoint, i) ==
    /\ answer' # answer
    /\ answer'.endpoint = endpoint
    /\ answer'.task_id = i

C25_ContentOnlyWhenCompleted ==
    [][\A i \in TaskIds, e \in {"result", "srt"} :
          Answers(e, i) =>
              /\ answer'.content # NULL => tasks[i].status = "completed"
              /\ ~Exists(tasks, i) => answer'.code = 404
              /\ tasks[i].status \in {"pending", "processing", "failed"}
                    => (answer'.code >= 400 /\ answer'.content = NULL)]_vars

\* C26: the result endpoint answers 202 for a task that is not yet completed
\* and 200 for a completed task.
C26_ResultCodes ==
    [][\A i \in TaskIds :
          Answers("result", i) =>
              /\ tasks[i].status \in {"pending", "processing"} => answer'.code = 202
              /\ tasks[i].status = "completed" => answer'.code = 200]_vars

\* the step is a run of the cleanup script
CleanupRuns == cleaned'.runs # cleaned.runs \/ cleaned'.selected # cleaned.selected

\* completed, with completed_at older than the retention period
Expired(i) ==
    /\ tasks[i].status = "completed"
    /\ now - tasks[i].completed_at > ExpireTime

C28_SameDirectory ==
    [][\A i \in TaskIds :
          (CleanupRuns /\ i \in cleaned'.selected /\ files[i] # {})
              => files'[i] = {}]_vars

\* C29: of two pushes, the one of strictly higher priority gets the strictly
\* higher score, whatever the two timestamps.
C29_PriorityDominates ==
    (calc.score1 # NULL_T /\ calc.p1 > calc.p2) => calc.score1 > calc.score2

\* the calls of create_*_task that returned their task_id
Returned == {n \in DOMAIN created : created[n].returned}

C31_ResultStored ==
    [][\A w \in Workers :
          (Leaves(w, "update_status") /\ wres[w] # NoResult)
              => LET row == get_task(tasks', wtask[w].task_id)
                 IN  /\ row.processing_time = wres[w].processing_time
                     /\ row.actual_duration = wres[w].actual_duration
                     /\ row.file_size = wres[w].file_size]_vars

\* the step is an empty poll of worker w
EmptyPoll(w) ==
    wloop'[w].consecutive_empty_polls = wloop[w].consecutive_empty_polls + 1

\* C32: after an empty poll the worker sleeps poll_interval, and 2 *
\* poll_interval once more than max_empty_polls polls in a row were empty; no
\* sleep is longer than 2 * poll_interval; obtaining a task sets the count of
\* empty polls to 0.
C32_BoundedBackoff ==
    [][\A w \in Workers :
          /\ EmptyPoll(w) =>
                wloop'[w].sleep = IF wloop'[w].consecutive_empty_polls > max_empty_polls
                                  THEN 2 * PollInterval ELSE PollInterval
          /\ wloop'[w].sleep <= 2 * PollInterval
          /\ (wpc[w] # "process" /\ wpc'[w] = "process")
                => wloop'[w].consecutive_empty_polls = 0]_vars

\* a worker that has finished a task polls empty more than max_empty_polls
\* times in a row and sleeps the long sleep
C32_Witness ==
    \E w \in Workers, i \in TaskIds :
        /\ tasks[i].status \in Terminal
        /\ wloop[w].consecutive_empty_polls > max_empty_polls
        /\ wloop[w].sleep = 2 * PollInterval

\* the step is a call of stop() for worker w
StopCalled(w) == ~wloop[w].stop_called /\ wloop'[w].stop_called

\* C33: stop() leaves the task in hand and its row as they are, so that the
\* task goes on to completed or failed, and once stop() was called the worker
\* begins no task in a later iteration of its loop.
C33_StopIsGraceful ==
    [][\A w \in Workers :
          /\ StopCalled(w) => (wpc'[w] = wpc[w] /\ wtask'[w] = wtask[w] /\ tasks' = tasks)
          /\ wloop[w].stop_called => ~(wpc[w] = "poll" /\ wpc'[w] = "claim")]_vars

\* C34: get_cache(key), called while the entry set_cache(key, value) stored
\* is there, returns a value equal to the one stored.
C34_CacheRoundTrip ==
    [][\A k \in CacheKeys :
          ( /\ rcache'.got # rcache.got /\ rcache'.got.key = k
            /\ rcache.kv[k] # NULL )
          => rcache'.got.value = rcache.put[k]]_vars

\* C35: once an online_tts request has returned, with success or with any
\* error answer, the row it created is completed or failed, never pending.
C35_OnlineRowSettled ==
    \A task_id \in TaskIds :
        (opc[task_id] = "done" /\ tasks[task_id] # NoRow)
            => tasks[task_id].status \in {"completed", "failed"}

\* the upload call is over
UploadOver == up.phase \in {"returned", "raised"}

\* C38: upload makes at most max_retries attempts and none after a success;
\* it returns the object key of the first successful attempt; it has slept
\* 2^attempt seconds after each failed attempt except the last one allowed;
\* when every attempt failed it raises the error of the last one; when the
\* local file is missing it raises FileNotFoundError without any attempt.
C38_UploadRetries ==
    LET n == Len(up.attempts)
        failed == {i \in 1..n : up.attempts[i] # "ok"}
    IN  /\ n <= up.max_retries
        /\ \A i \in 1..n : up.attempts[i] = "ok" => i = n
        /\ up.phase = "returned"
              <=> (n > 0 /\ up.attempts[n] = "ok")
        /\ up.phase = "returned" => up.outcome = object_key(up.local_path)
        /\ up.waits = [i \in 1..Cardinality(failed \ {up.max_retries}) |-> 2 ^ (i - 1)]
        /\ (up.phase = "raised" /\ n > 0)
              => /\ n = up.max_retries
                 /\ up.outcome = up.attempts[n]
        /\ up.outcome = "FileNotFoundError" => n = 0
        /\ (up.phase = "loop") => n < up.max_retries

\* two failed attempts, each followed by its wait, then the third one fails
\* and its error is raised
C38_Witness ==
    /\ up.phase = "raised"
    /\ up.max_retries = 3
    /\ Len(up.attempts) = 3
    /\ up.waits = <<1, 2>>
    /\ up.outcome = "connection reset"
    /\ up.attempts[1] # up.attempts[3]

\* C39: a call that creates a task leaves the text file and the directory
\* of every task that exists already as they were, whatever id is drawn.
C39_CreateLeavesOthers ==
    [][Len(created') > Len(created)
          => \A task_id \in TaskIds :
                Exists(tasks, task_id)
                    => /\ texts'[task_id] = texts[task_id]
                       /\ files'[task_id] = files[task_id]]_vars

\* C36: within one window of the counter, check_rate_limit admits at most
\* RATE_LIMIT_PER_MINUTE requests of the client, also when requests are
\* checked concurrently.
C36_RateLimitHolds == rl.admitted <= RATE_LIMIT_PER_MINUTE

\* the key rate_limit:<ip> is there
HasCounter == rl.count # Absent

\* C37: the counter key always carries an expiry, and a client that was
\* rejected with 429 is eventually admitted again.
C37_CounterExpires ==
    /\ [](HasCounter => rl.ttl # NoExpiry)
    /\ rl.rejected ~> ~rl.rejected

====
